---- MODULE Spec2Model ----
(***************************************************************************)
(* A model of BookGenerator (src/book_generator.py): the chapter sequencer *)
(* generate_book, the per-chapter pipeline generate_chapter with its       *)
(* simplified retry _handle_chapter_generation_failure, and the content    *)
(* validator _verify_chapter_content.                                      *)
(*                                                                         *)
(* A text is modelled by the list of its lines, content.split('\n'): the   *)
(* split and the join on '\n' are inverse to each other, so a text and its *)
(* list of lines carry the same information.  The empty text is the list   *)
(* holding one empty line.  A line is a record saying what the validator   *)
(* can observe of it.  The artifact store (the directory book_output) maps *)
(* file names to texts.                                                    *)
(*                                                                         *)
(* BookGenerator calls two methods, _verify_chapter_complete and           *)
(* _process_chapter_results, that book_generator.py does not define; they  *)
(* are modelled from the specification (Incomplete-Session rule, persist   *)
(* the artifact and append a summary to chapter_summaries).                *)
(*                                                                         *)
(* Besides Spec, the run of generate_book, the module holds ValidatorSpec  *)
(* (the validator on every short text), AgentsSpec (the world elements and *)
(* character developments of BookAgents, src/agents.py), ContextSpec       *)
(* (_prepare_chapter_context on every short chapters_memory) and           *)
(* SessionSpec (one session of either group chat, message by message).     *)
(***************************************************************************)
EXTENDS Integers, Sequences, FiniteSets, TLC

\* Chapter numbers of the outlines explored are drawn from 1..MaxChapter.
MaxChapter == 3

\* The outlines explored hold at most MaxOutline chapters.
MaxOutline == 2

ChapterNumbers == 1..MaxChapter

Range(s) == {s[i] : i \in DOMAIN s}

(***************************************************************************)
(* Texts                                                                   *)
(***************************************************************************)

\* kind: "empty" (zero characters), "ws" (white space only), "text" (prose),
\* "hdr" (prose holding "Chapter <num>"), "mem" (holds "MEMORY UPDATE:"),
\* "memhdr" (holds both "MEMORY UPDATE:" and "Chapter <num>").
Line(kind, num) == [kind |-> kind, num |-> num]

EmptyLine == Line("empty", 0)
WsLine == Line("ws", 0)
TextLine == Line("text", 0)
MemLine == Line("mem", 0)
HdrLine(n) == Line("hdr", n)
MemHdrLine(n) == Line("memhdr", n)

\* The text "" : ''.split('\n') = [''].
EmptyContent == <<EmptyLine>>

\* No file of that name in the directory.
Absent == <<>>

\* line.strip() is falsy
IsBlank(line) == line.kind \in {"empty", "ws"}

\* 'MEMORY UPDATE:' in line
HasMemoryUpdate(line) == line.kind \in {"mem", "memhdr"}

\* The decimal numeral of n is an initial part of the numeral of k.
RECURSIVE IsDecimalPrefix(_, _)
IsDecimalPrefix(n, k) ==
    IF n = k THEN TRUE
    ELSE IF k < 10 THEN FALSE
    ELSE IsDecimalPrefix(n, k \div 10)

\* f"Chapter {n}" in line: "Chapter 1" is a substring of "Chapter 12" too.
HasChapterMarker(line, n) ==
    /\ line.kind \in {"hdr", "memhdr"}
    /\ IsDecimalPrefix(n, line.num)

\* The validator's threshold: "At least chapter header + 2 content lines".
MinContentLines == 3

\* Bookkeeping lines counted with the rest.
content_lines_with_memory(content) ==
    SelectSeq(content, LAMBDA line : ~IsBlank(line))

\* The header left out of the count.
content_lines_without_header(content) ==
    SelectSeq(content, LAMBDA line : line.kind = "text")

\* [line for line in lines if line.strip() and 'MEMORY UPDATE:' not in line]
content_lines(content) ==
    SelectSeq(content, LAMBDA line : ~IsBlank(line) /\ ~HasMemoryUpdate(line))

\* The validator without its test of the chapter header.
_verify_without_header_check(content, chapter_number) ==
    IF content = EmptyContent
    THEN FALSE
    ELSE Len(content_lines(content)) >= MinContentLines

_verify_chapter_content(content, chapter_number) ==
    IF content = EmptyContent
    THEN FALSE
    ELSE IF ~(\E i \in DOMAIN content : HasChapterMarker(content[i], chapter_number))
    THEN FALSE
    ELSE Len(content_lines(content)) >= MinContentLines

(***************************************************************************)
(* The artifact store                                                      *)
(***************************************************************************)

\* f"chapter_{n:02d}.txt": the decimal digits of n, padded with zeros on the
\* left to at least two digits.
RECURSIVE Digits(_)
Digits(n) == IF n < 10 THEN <<n>> ELSE Append(Digits(n \div 10), n % 10)

\* A name of exactly two digits, the higher ones dropped.
chapter_file_truncated(n) == <<(n \div 10) % 10, n % 10>>

chapter_file(n) == IF n < 10 THEN <<0, n>> ELSE Digits(n)

FileNames == {chapter_file(n) : n \in ChapterNumbers}

\* os.path.exists(file)
exists(st, file) == st[file] # Absent

\* Texts an earlier run or an external actor may have left in book_output
\* for chapter n: a complete chapter, a header alone, a chapter of bookkeeping
\* lines only.
ValidText(n) == <<HdrLine(n), TextLine, TextLine, EmptyLine>>
HeaderOnly(n) == <<HdrLine(n), EmptyLine>>
InitialTexts(n) == {Absent, ValidText(n), HeaderOnly(n)}

(***************************************************************************)
(* The outline                                                             *)
(***************************************************************************)

ChapterSpec(n) == [chapter_number |-> n, prompt |-> n]

\* Sequences of distinct chapter numbers, in any order, contiguous or not.
Outlines ==
    {o \in UNION {[1..k -> ChapterNumbers] : k \in 0..MaxOutline} :
        \A i, j \in DOMAIN o : i # j => o[i] # o[j]}

\* sorted(outline, key=lambda x: x["chapter_number"]): a stable insertion of
\* each element, in turn, after the elements not greater than it.
Insert(s, x) ==
    LET k == Cardinality({i \in DOMAIN s : s[i].chapter_number <= x.chapter_number})
    IN  SubSeq(s, 1, k) \o <<x>> \o SubSeq(s, k + 1, Len(s))

RECURSIVE SortFrom(_, _, _)
SortFrom(acc, o, i) ==
    IF i > Len(o) THEN acc ELSE SortFrom(Insert(acc, o[i]), o, i + 1)

Unsorted(o) == o

sorted(o) == SortFrom(<<>>, o, 1)

(***************************************************************************)
(* Context state                                                           *)
(***************************************************************************)

\* What _process_chapter_results adds to chapters_memory for chapter n.
Summary(n) == [of |-> n]

NoContext == [initial |-> FALSE, summaries |-> <<>>, requirements |-> 0]

\* "Initial Chapter" and the requirements for chapter 1; otherwise one line
\* "Chapter {i+1}: {summary}" for every i, summary of enumerate(memory), then
\* the requirements.
_prepare_chapter_context(memory, chapter_number, prompt) ==
    IF chapter_number = 1
    THEN [initial |-> TRUE, summaries |-> <<>>, requirements |-> prompt]
    ELSE [initial |-> FALSE,
          summaries |-> [i \in 1..Len(memory) |-> [label |-> i, summary |-> memory[i]]],
          requirements |-> prompt]

(***************************************************************************)
(* The two group chats and the messages that start them                    *)
(***************************************************************************)

\* max_round of the primary group chat and of the retry group chat
PrimaryMaxRound == 5
RetryMaxRound == 3

GroupChat(kind, agents, messages, max_round, speaker_selection_method) ==
    [kind |-> kind, agents |-> agents, messages |-> messages,
     max_round |-> max_round,
     speaker_selection_method |-> speaker_selection_method]

NoGroupChat == GroupChat("none", <<>>, "none", 0, "none")

\* A primary group chat that also seats the story planner.
initiate_group_chat_with_planner ==
    GroupChat("primary",
              <<"user_proxy", "memory_keeper", "story_planner", "writer",
                "editor", "writer_final">>,
              "outline", PrimaryMaxRound, "round_robin")

\* initiate_group_chat: five agents, the outline as system message, five
\* rounds, speakers in list order.
initiate_group_chat ==
    GroupChat("primary",
              <<"user_proxy", "memory_keeper", "writer", "editor",
                "writer_final">>,
              "outline", PrimaryMaxRound, "round_robin")

\* retry_groupchat: three agents, no message, three rounds; no
\* speaker_selection_method is given, and autogen.GroupChat then selects the
\* next speaker by "auto".
retry_groupchat ==
    GroupChat("retry", <<"user_proxy", "story_planner", "writer">>,
              "empty", RetryMaxRound, "auto")

ChatMessage(kind, n, prompt, ctx) ==
    [kind |-> kind, chapter |-> n, requirements |-> prompt, context |-> ctx]

NoMessage == ChatMessage("none", 0, 0, NoContext)

\* chapter_prompt: the chapter number, the requirements and, under "Previous
\* Context for Reference", the context prepared for the chapter.
chapter_prompt(n, prompt, ctx) == ChatMessage("chapter_prompt", n, prompt, ctx)

\* A retry prompt that carries the context prepared for the chapter.
retry_prompt_with_context(n, prompt, ctx) ==
    ChatMessage("retry_prompt", n, prompt, ctx)

\* retry_prompt: "Emergency chapter generation for Chapter {n}." and the
\* prompt of the chapter.  The handler is given chapter_number and prompt
\* only, so whatever context was prepared is not part of the message.
retry_prompt(n, prompt, ctx) ==
    ChatMessage("retry_prompt", n, prompt, NoContext)

(***************************************************************************)
(* State                                                                   *)
(***************************************************************************)

VARIABLES
    outline,          \* self.outline and the argument of generate_book
    sorted_outline,   \* generate_book's sorted_outline
    idx,              \* position of the for loop in sorted_outline
    chapter_number,   \* the loop's chapter_number (0 before the first)
    pc,               \* the statement the run is at
    store,            \* book_output: file name -> text, or Absent
    chapters_memory,  \* self.chapters_memory
    context,          \* the context last built by _prepare_chapter_context
    messages,         \* groupchat.messages of the primary session, as its outcome
    store0,           \* the store when the run started
    attempted,        \* the chapters generate_chapter was called for, in call order
    completed,        \* the chapters reported complete, in order
    halt,             \* the halt message printed, or NoHalt
    log,              \* what the last call of generate_chapter did, in order
    groupchat,        \* the GroupChat last created by that call
    chat_message      \* the message its session is started with

book_vars == <<outline, sorted_outline, idx, chapter_number, pc, store,
               chapters_memory, context, messages, store0, attempted,
               completed, halt, log, groupchat, chat_message>>

\* The state of the validator taken alone, and of BookAgents (src/agents.py).
VARIABLES
    v_content,              \* the text given to _verify_chapter_content
    v_number,               \* the chapter number given to it
    v_result,               \* what it returned: "none" before the call
    v_op,                   \* the last step taken on the text
    world_elements,         \* self.world_elements, in insertion order
    character_developments, \* self.character_developments, in insertion order
    calls                   \* the update calls made on BookAgents, in order

unit_vars == <<v_content, v_number, v_result, v_op, world_elements,
               character_developments, calls>>

vars == <<book_vars, unit_vars>>

\* No validator call and no BookAgents under study.
UnitIdle ==
    /\ v_content = <<>>
    /\ v_number = 0
    /\ v_result = "none"
    /\ v_op = "none"
    /\ world_elements = <<>>
    /\ character_developments = <<>>
    /\ calls = <<>>

Event(op, n, arg) == [op |-> op, n |-> n, arg |-> arg]

Logged(op, n) == \E i \in DOMAIN log : log[i].op = op /\ log[i].n = n

LoggedWith(op, n, arg) == Event(op, n, arg) \in Range(log)

Count(op, n) == Cardinality({i \in DOMAIN log : log[i].op = op /\ log[i].n = n})

NoHalt == [at |-> 0, reason |-> "none"]

Halt(n, reason) == [at |-> n, reason |-> reason]

\* __init__ (chapters_memory = []) with any outline and any content of the
\* output directory.
Init ==
    /\ outline \in {[i \in DOMAIN o |-> ChapterSpec(o[i])] : o \in Outlines}
    /\ sorted_outline = <<>>
    /\ idx = 0
    /\ chapter_number = 0
    /\ pc = "start"
    /\ store \in {g \in [FileNames -> UNION {InitialTexts(n) : n \in ChapterNumbers}] :
                    \A n \in ChapterNumbers : g[chapter_file(n)] \in InitialTexts(n)}
    /\ chapters_memory = <<>>
    /\ context = NoContext
    /\ messages = "none"
    /\ store0 = store
    /\ attempted = <<>>
    /\ completed = <<>>
    /\ halt = NoHalt
    /\ log = <<>>
    /\ groupchat = NoGroupChat
    /\ chat_message = NoMessage
    /\ UnitIdle

(***************************************************************************)
(* generate_book: the loop and its checks of the previous chapter          *)
(***************************************************************************)

\* if not os.path.exists(prev_file)
previous_missing(st, n) == n > 1 /\ ~exists(st, chapter_file(n - 1))

previous_invalid_unchecked(st, n) == FALSE

\* if not self._verify_chapter_content(content, chapter_number-1)
previous_invalid(st, n) ==
    /\ n > 1
    /\ exists(st, chapter_file(n - 1))
    /\ ~_verify_chapter_content(st[chapter_file(n - 1)], n - 1)

\* sorted_outline = sorted(outline, ...), and the loop starts
generate_book ==
    /\ pc = "start"
    /\ sorted_outline' = sorted(outline)
    /\ idx' = 1
    /\ pc' = "loop"
    /\ UNCHANGED <<outline, chapter_number, store, chapters_memory, context,
                   messages, store0, attempted, completed, halt, log>>
    /\ UNCHANGED <<groupchat, chat_message>>
    /\ UNCHANGED unit_vars

\* the for loop has run through sorted_outline
loop_exit ==
    /\ pc = "loop"
    /\ idx > Len(sorted_outline)
    /\ pc' = "done"
    /\ UNCHANGED <<outline, sorted_outline, idx, chapter_number, store,
                   chapters_memory, context, messages, store0, attempted,
                   completed, halt, log>>
    /\ UNCHANGED <<groupchat, chat_message>>
    /\ UNCHANGED unit_vars

\* "Previous chapter {n-1} not found. Stopping." / break
halt_previous_missing ==
    /\ pc = "loop"
    /\ idx <= Len(sorted_outline)
    /\ LET n == sorted_outline[idx].chapter_number IN
        /\ previous_missing(store, n)
        /\ chapter_number' = n
        /\ halt' = Halt(n, "previous chapter not found")
    /\ pc' = "done"
    /\ UNCHANGED <<outline, sorted_outline, idx, store, chapters_memory,
                   context, messages, store0, attempted, completed, log>>
    /\ UNCHANGED <<groupchat, chat_message>>
    /\ UNCHANGED unit_vars

\* "Previous chapter {n-1} content invalid. Stopping." / break
halt_previous_invalid ==
    /\ pc = "loop"
    /\ idx <= Len(sorted_outline)
    /\ LET n == sorted_outline[idx].chapter_number IN
        /\ ~previous_missing(store, n)
        /\ previous_invalid(store, n)
        /\ chapter_number' = n
        /\ halt' = Halt(n, "previous chapter invalid")
    /\ pc' = "done"
    /\ UNCHANGED <<outline, sorted_outline, idx, store, chapters_memory,
                   context, messages, store0, attempted, completed, log>>
    /\ UNCHANGED <<groupchat, chat_message>>
    /\ UNCHANGED unit_vars

\* A loop that resumes: a chapter whose artifact exists and is valid is
\* reported complete without a call of generate_chapter.
resume_or_generate_chapter ==
    /\ pc = "loop"
    /\ idx <= Len(sorted_outline)
    /\ LET n == sorted_outline[idx].chapter_number IN
        /\ ~previous_missing(store, n)
        /\ ~previous_invalid(store, n)
        /\ chapter_number' = n
        /\ IF /\ exists(store, chapter_file(n))
              /\ _verify_chapter_content(store[chapter_file(n)], n)
           THEN /\ completed' = Append(completed, n)
                /\ idx' = idx + 1
                /\ pc' = "loop"
                /\ UNCHANGED <<attempted, log, messages>>
           ELSE /\ attempted' = Append(attempted, n)
                /\ log' = <<Event("generate_chapter", n, "")>>
                /\ messages' = "none"
                /\ pc' = "generate"
                /\ UNCHANGED <<completed, idx>>
    /\ UNCHANGED <<outline, sorted_outline, store, chapters_memory,
                   context, store0, halt>>
    /\ groupchat' = NoGroupChat
    /\ chat_message' = NoMessage
    /\ UNCHANGED unit_vars

\* self.generate_chapter(chapter_number, chapter["prompt"]) is called
call_generate_chapter ==
    /\ pc = "loop"
    /\ idx <= Len(sorted_outline)
    /\ LET n == sorted_outline[idx].chapter_number IN
        /\ ~previous_missing(store, n)
        /\ ~previous_invalid(store, n)
        /\ chapter_number' = n
        /\ attempted' = Append(attempted, n)
        /\ log' = <<Event("generate_chapter", n, "")>>
    /\ messages' = "none"
    /\ pc' = "generate"
    /\ UNCHANGED <<outline, sorted_outline, idx, store, chapters_memory,
                   context, store0, completed, halt>>
    /\ groupchat' = NoGroupChat
    /\ chat_message' = NoMessage
    /\ UNCHANGED unit_vars

(***************************************************************************)
(* The two methods generate_chapter calls and book_generator.py lacks      *)
(***************************************************************************)

\* How a session (initiate_chat) can end: the terminal participant produced
\* its final output, the round cap was reached without one, or a call to the
\* generation capability raised (error or timeout).
SessionOutcomes == {"final", "no_final", "error"}

\* Incomplete-Session rule: a session is complete when it holds a final output.
_verify_chapter_complete(msgs) == msgs = "final"

\* Candidate texts a session can leave for chapter n: a complete chapter, a
\* header alone, a header and one line of prose among bookkeeping lines.
TwoLineText(n) == <<MemLine, HdrLine(n), TextLine>>
WrittenTexts(n) == {ValidText(n), HeaderOnly(n), TwoLineText(n)}

\* _process_chapter_results returning normally: a summary is appended to
\* chapters_memory and the chapter text is saved under chapter_file(n), or,
\* for a persistence failure, no file appears.
_process_chapter_results(n, by) ==
    /\ chapters_memory' = Append(chapters_memory, Summary(n))
    /\ \E text \in WrittenTexts(n) \cup {Absent} :
        IF text = Absent
        THEN /\ store' = store
             /\ log' = log
        ELSE /\ store' = [store EXCEPT ![chapter_file(n)] = text]
             /\ log' = Append(log, Event("write", n, by))

(***************************************************************************)
(* generate_chapter                                                        *)
(***************************************************************************)

\* an exception raised in the try block reaches "except Exception as e"
raise_in_primary(reason) ==
    /\ log' = Append(log, Event("primary_failed", chapter_number, reason))
    /\ pc' = "failure"

\* The title looked up at self.outline[chapter_number], one entry too far.
prepare_chapter_off_by_one ==
    /\ pc = "generate"
    /\ context' = _prepare_chapter_context(chapters_memory, chapter_number,
                                           sorted_outline[idx].prompt)
    /\ IF chapter_number >= Len(outline)
       THEN /\ log' = Append(Append(log, Event("context", chapter_number, "")),
                             Event("primary_failed", chapter_number, "index"))
            /\ chat_message' = chat_message
            /\ pc' = "failure"
       ELSE /\ log' = Append(log, Event("context", chapter_number, ""))
            /\ chat_message' = chapter_prompt(chapter_number,
                                              sorted_outline[idx].prompt,
                                              context')
            /\ pc' = "chat"
    /\ UNCHANGED <<outline, sorted_outline, idx, chapter_number, store,
                   chapters_memory, messages, store0, attempted, completed,
                   halt>>
    /\ groupchat' = initiate_group_chat
    /\ UNCHANGED unit_vars

\* lines 124-159: the group chat is created, the context is prepared and the
\* chapter prompt is formatted; self.outline[chapter_number - 1] raises
\* IndexError when the outline has fewer than chapter_number entries.
prepare_chapter ==
    /\ pc = "generate"
    /\ context' = _prepare_chapter_context(chapters_memory, chapter_number,
                                           sorted_outline[idx].prompt)
    /\ IF chapter_number > Len(outline)
       THEN /\ log' = Append(Append(log, Event("context", chapter_number, "")),
                             Event("primary_failed", chapter_number, "index"))
            /\ chat_message' = chat_message
            /\ pc' = "failure"
       ELSE /\ log' = Append(log, Event("context", chapter_number, ""))
            /\ chat_message' = chapter_prompt(chapter_number,
                                              sorted_outline[idx].prompt,
                                              context')
            /\ pc' = "chat"
    /\ UNCHANGED <<outline, sorted_outline, idx, chapter_number, store,
                   chapters_memory, messages, store0, attempted, completed,
                   halt>>
    /\ groupchat' = initiate_group_chat
    /\ UNCHANGED unit_vars

\* self.agents["user_proxy"].initiate_chat(manager, message=chapter_prompt)
primary_session ==
    /\ pc = "chat"
    /\ \E outcome \in SessionOutcomes :
        IF outcome = "error"
        THEN /\ log' = Append(Append(log, Event("primary_session", chapter_number, outcome)),
                              Event("primary_failed", chapter_number, "generation"))
             /\ pc' = "failure"
             /\ messages' = messages
        ELSE /\ log' = Append(log, Event("primary_session", chapter_number, outcome))
             /\ pc' = "verify"
             /\ messages' = outcome
    /\ UNCHANGED <<outline, sorted_outline, idx, chapter_number, store,
                   chapters_memory, context, store0, attempted, completed,
                   halt>>
    /\ UNCHANGED <<groupchat, chat_message>>
    /\ UNCHANGED unit_vars

\* generate_chapter processing the messages of any session that returned.
verify_complete_skipped ==
    /\ pc = "verify"
    /\ pc' = "process"
    /\ UNCHANGED <<outline, sorted_outline, idx, chapter_number, store,
                   chapters_memory, context, messages, store0, attempted,
                   completed, halt, log>>
    /\ UNCHANGED <<groupchat, chat_message>>
    /\ UNCHANGED unit_vars

\* if not self._verify_chapter_complete(groupchat.messages): raise ValueError
verify_complete ==
    /\ pc = "verify"
    /\ IF _verify_chapter_complete(messages)
       THEN /\ pc' = "process"
            /\ log' = log
       ELSE raise_in_primary("incomplete")
    /\ UNCHANGED <<outline, sorted_outline, idx, chapter_number, store,
                   chapters_memory, context, messages, store0, attempted,
                   completed, halt>>
    /\ UNCHANGED <<groupchat, chat_message>>
    /\ UNCHANGED unit_vars

\* self._process_chapter_results(chapter_number, groupchat.messages)
process_primary ==
    /\ pc = "process"
    /\ \/ /\ _process_chapter_results(chapter_number, "primary")
          /\ pc' = "exists"
       \/ /\ raise_in_primary("process")
          /\ UNCHANGED <<store, chapters_memory>>
    /\ UNCHANGED <<outline, sorted_outline, idx, chapter_number, context,
                   messages, store0, attempted, completed, halt>>
    /\ UNCHANGED <<groupchat, chat_message>>
    /\ UNCHANGED unit_vars

\* generate_chapter going on to the notice without looking for the file.
check_file_created_skipped ==
    /\ pc = "exists"
    /\ pc' = "notify"
    /\ UNCHANGED <<outline, sorted_outline, idx, chapter_number, store,
                   chapters_memory, context, messages, store0, attempted,
                   completed, halt, log>>
    /\ UNCHANGED <<groupchat, chat_message>>
    /\ UNCHANGED unit_vars

\* if not os.path.exists(chapter_file): raise FileNotFoundError
check_file_created ==
    /\ pc = "exists"
    /\ IF exists(store, chapter_file(chapter_number))
       THEN /\ pc' = "notify"
            /\ log' = log
       ELSE raise_in_primary("file not created")
    /\ UNCHANGED <<outline, sorted_outline, idx, chapter_number, store,
                   chapters_memory, context, messages, store0, attempted,
                   completed, halt>>
    /\ UNCHANGED <<groupchat, chat_message>>
    /\ UNCHANGED unit_vars

\* generate_chapter returning without the completion notice.
send_completion_skipped ==
    /\ pc = "notify"
    /\ pc' = "verify_current"
    /\ UNCHANGED <<outline, sorted_outline, idx, chapter_number, store,
                   chapters_memory, context, messages, store0, attempted,
                   completed, halt, log>>
    /\ UNCHANGED <<groupchat, chat_message>>
    /\ UNCHANGED unit_vars

\* self.agents["user_proxy"].send(completion_msg, manager): the notice is
\* delivered and generate_chapter returns, or the call raises.
send_completion ==
    /\ pc = "notify"
    /\ \/ /\ log' = Append(log, Event("notice", chapter_number, ""))
          /\ pc' = "verify_current"
       \/ raise_in_primary("notice")
    /\ UNCHANGED <<outline, sorted_outline, idx, chapter_number, store,
                   chapters_memory, context, messages, store0, attempted,
                   completed, halt>>
    /\ UNCHANGED <<groupchat, chat_message>>
    /\ UNCHANGED unit_vars

(***************************************************************************)
(* _handle_chapter_generation_failure                                      *)
(***************************************************************************)

no_retry ==
    /\ pc = "failure"
    /\ pc' = "verify_current"
    /\ UNCHANGED <<outline, sorted_outline, idx, chapter_number, store,
                   chapters_memory, context, messages, store0, attempted,
                   completed, halt, log>>
    /\ UNCHANGED <<groupchat, chat_message>>
    /\ UNCHANGED unit_vars

\* except Exception as e: self._handle_chapter_generation_failure(...)
handle_failure ==
    /\ pc = "failure"
    /\ log' = Append(log, Event("fallback", chapter_number, ""))
    /\ pc' = "retry_chat"
    /\ UNCHANGED <<outline, sorted_outline, idx, chapter_number, store,
                   chapters_memory, context, messages, store0, attempted,
                   completed, halt>>
    /\ groupchat' = retry_groupchat
    /\ chat_message' = retry_prompt(chapter_number,
                                    sorted_outline[idx].prompt, context)
    /\ UNCHANGED unit_vars

\* A handler without its except clause: the exception of the retry leaves
\* generate_chapter and generate_book.
retry_session_raising ==
    /\ pc = "retry_chat"
    /\ \E outcome \in SessionOutcomes :
        IF outcome = "error"
        THEN /\ log' = Append(Append(log, Event("fallback_session", chapter_number, outcome)),
                              Event("fallback_failed", chapter_number, "generation"))
             /\ pc' = "done"
        ELSE /\ log' = Append(log, Event("fallback_session", chapter_number, outcome))
             /\ pc' = "retry_process"
    /\ UNCHANGED <<outline, sorted_outline, idx, chapter_number, store,
                   chapters_memory, context, messages, store0, attempted,
                   completed, halt>>
    /\ UNCHANGED <<groupchat, chat_message>>
    /\ UNCHANGED unit_vars

\* self.agents["user_proxy"].initiate_chat(manager, message=retry_prompt);
\* an exception is printed and swallowed, and the method returns.
retry_session ==
    /\ pc = "retry_chat"
    /\ \E outcome \in SessionOutcomes :
        IF outcome = "error"
        THEN /\ log' = Append(Append(log, Event("fallback_session", chapter_number, outcome)),
                              Event("fallback_failed", chapter_number, "generation"))
             /\ pc' = "verify_current"
        ELSE /\ log' = Append(log, Event("fallback_session", chapter_number, outcome))
             /\ pc' = "retry_process"
    /\ UNCHANGED <<outline, sorted_outline, idx, chapter_number, store,
                   chapters_memory, context, messages, store0, attempted,
                   completed, halt>>
    /\ UNCHANGED <<groupchat, chat_message>>
    /\ UNCHANGED unit_vars

\* self._process_chapter_results(chapter_number, retry_groupchat.messages)
process_retry ==
    /\ pc = "retry_process"
    /\ \/ _process_chapter_results(chapter_number, "fallback")
       \/ /\ log' = Append(log, Event("fallback_failed", chapter_number, "process"))
          /\ UNCHANGED <<store, chapters_memory>>
    /\ pc' = "verify_current"
    /\ UNCHANGED <<outline, sorted_outline, idx, chapter_number, context,
                   messages, store0, attempted, completed, halt>>
    /\ UNCHANGED <<groupchat, chat_message>>
    /\ UNCHANGED unit_vars

(***************************************************************************)
(* generate_book: the check of the chapter just generated                  *)
(***************************************************************************)

\* if not os.path.exists(chapter_file)
current_missing(st, n) == ~exists(st, chapter_file(n))

current_invalid_unchecked(st, n) == FALSE

\* if not self._verify_chapter_content(content, chapter_number)
current_invalid(st, n) ==
    /\ exists(st, chapter_file(n))
    /\ ~_verify_chapter_content(st[chapter_file(n)], n)

\* The break taken without the print.
halt_current_missing_silent ==
    /\ pc = "verify_current"
    /\ current_missing(store, chapter_number)
    /\ pc' = "done"
    /\ UNCHANGED <<outline, sorted_outline, idx, chapter_number, store,
                   chapters_memory, context, messages, store0, attempted,
                   completed, halt, log>>
    /\ UNCHANGED <<groupchat, chat_message>>
    /\ UNCHANGED unit_vars

\* "Failed to generate chapter {n}" / break
halt_current_missing ==
    /\ pc = "verify_current"
    /\ current_missing(store, chapter_number)
    /\ halt' = Halt(chapter_number, "chapter not generated")
    /\ pc' = "done"
    /\ UNCHANGED <<outline, sorted_outline, idx, chapter_number, store,
                   chapters_memory, context, messages, store0, attempted,
                   completed, log>>
    /\ UNCHANGED <<groupchat, chat_message>>
    /\ UNCHANGED unit_vars

\* "Chapter {n} content invalid" / break
halt_current_invalid ==
    /\ pc = "verify_current"
    /\ ~current_missing(store, chapter_number)
    /\ current_invalid(store, chapter_number)
    /\ halt' = Halt(chapter_number, "chapter content invalid")
    /\ pc' = "done"
    /\ UNCHANGED <<outline, sorted_outline, idx, chapter_number, store,
                   chapters_memory, context, messages, store0, attempted,
                   completed, log>>
    /\ UNCHANGED <<groupchat, chat_message>>
    /\ UNCHANGED unit_vars

\* A check of the chapter that records a summary of it on success.
chapter_complete_recording ==
    /\ pc = "verify_current"
    /\ ~current_missing(store, chapter_number)
    /\ ~current_invalid(store, chapter_number)
    /\ chapters_memory' = Append(chapters_memory, Summary(chapter_number))
    /\ completed' = Append(completed, chapter_number)
    /\ idx' = idx + 1
    /\ pc' = "loop"
    /\ UNCHANGED <<outline, sorted_outline, chapter_number, store,
                   context, messages, store0, attempted, halt, log>>
    /\ UNCHANGED <<groupchat, chat_message>>
    /\ UNCHANGED unit_vars

\* "Chapter {n} complete", and the loop goes on
chapter_complete ==
    /\ pc = "verify_current"
    /\ ~current_missing(store, chapter_number)
    /\ ~current_invalid(store, chapter_number)
    /\ completed' = Append(completed, chapter_number)
    /\ idx' = idx + 1
    /\ pc' = "loop"
    /\ UNCHANGED <<outline, sorted_outline, chapter_number, store,
                   chapters_memory, context, messages, store0, attempted,
                   halt, log>>
    /\ UNCHANGED <<groupchat, chat_message>>
    /\ UNCHANGED unit_vars

Next ==
    \/ generate_book
    \/ loop_exit
    \/ halt_previous_missing
    \/ halt_previous_invalid
    \/ call_generate_chapter
    \/ prepare_chapter
    \/ primary_session
    \/ verify_complete
    \/ process_primary
    \/ check_file_created
    \/ send_completion
    \/ handle_failure
    \/ retry_session
    \/ process_retry
    \/ halt_current_missing
    \/ halt_current_invalid
    \/ chapter_complete

Spec == Init /\ [][Next]_vars

(***************************************************************************)
(* The validator taken alone                                               *)
(***************************************************************************)

\* The texts explored hold at most MaxLines lines.
MaxLines == 5

\* The chapter numbers asked for, and those the header lines name: "Chapter 1"
\* is part of "Chapter 12".
ValidatorNumbers == {1, 12}

Lines ==
    {EmptyLine, WsLine, TextLine, MemLine, MemHdrLine(1)}
        \cup {HdrLine(k) : k \in ValidatorNumbers}

\* Lines that hold no prose of the chapter: blank ones and bookkeeping ones.
BookkeepingLines == {l \in Lines : IsBlank(l) \/ HasMemoryUpdate(l)}

Contents == UNION {[1..k -> Lines] : k \in 1..MaxLines}

\* The generator at rest: no run of generate_book is under way.
BookIdle ==
    /\ outline = <<>>
    /\ sorted_outline = <<>>
    /\ idx = 0
    /\ chapter_number = 0
    /\ pc = "idle"
    /\ store = [f \in FileNames |-> Absent]
    /\ chapters_memory = <<>>
    /\ context = NoContext
    /\ messages = "none"
    /\ store0 = store
    /\ attempted = <<>>
    /\ completed = <<>>
    /\ halt = NoHalt
    /\ log = <<>>
    /\ groupchat = NoGroupChat
    /\ chat_message = NoMessage

ValidatorInit ==
    /\ BookIdle
    /\ v_content \in Contents
    /\ v_number \in ValidatorNumbers
    /\ v_result = "none"
    /\ v_op = "none"
    /\ world_elements = <<>>
    /\ character_developments = <<>>
    /\ calls = <<>>

\* self._verify_chapter_content(content, chapter_number)
verify_content ==
    /\ v_result = "none"
    /\ v_result' = IF _verify_chapter_content(v_content, v_number)
                   THEN "true" ELSE "false"
    /\ v_op' = "verify"
    /\ UNCHANGED <<v_content, v_number, world_elements,
                   character_developments, calls>>
    /\ UNCHANGED book_vars

\* The text with one more blank or bookkeeping line, put before line i of it
\* or after its last line.
add_line ==
    /\ Len(v_content) < MaxLines
    /\ \E i \in 1..(Len(v_content) + 1), l \in BookkeepingLines :
        v_content' = SubSeq(v_content, 1, i - 1) \o <<l>>
                        \o SubSeq(v_content, i, Len(v_content))
    /\ v_result' = "none"
    /\ v_op' = "add"
    /\ UNCHANGED <<v_number, world_elements, character_developments, calls>>
    /\ UNCHANGED book_vars

\* The text without one of its blank or bookkeeping lines.
remove_line ==
    /\ Len(v_content) > 1
    /\ \E i \in DOMAIN v_content :
        /\ v_content[i] \in BookkeepingLines
        /\ v_content' = SubSeq(v_content, 1, i - 1)
                            \o SubSeq(v_content, i + 1, Len(v_content))
    /\ v_result' = "none"
    /\ v_op' = "remove"
    /\ UNCHANGED <<v_number, world_elements, character_developments, calls>>
    /\ UNCHANGED book_vars

ValidatorNext ==
    \/ verify_content
    \/ add_line
    \/ remove_line

ValidatorSpec == ValidatorInit /\ [][ValidatorNext]_vars

(***************************************************************************)
(* BookAgents: world elements and character developments (src/agents.py)   *)
(***************************************************************************)

\* A run of BookAgents makes at most MaxCalls calls.
MaxCalls == 4

ElementNames == {"Forest", "Lake"}
Descriptions == {"A", "B"}
CharacterNames == {"Dane", "Mira"}
Developments == {"x", "y"}

\* A dict is the sequence of its items in the order their keys were first
\* set, which is the order items() yields.
Keys(d) == {d[i].key : i \in DOMAIN d}

Get(d, key) == d[CHOOSE i \in DOMAIN d : d[i].key = key].value

\* An assignment that adds an item for every call, old keys included.
PutAppending(d, key, value) ==
    Append(d, [key |-> key, value |-> value])

\* d[key] = value
Put(d, key, value) ==
    IF key \in Keys(d)
    THEN [i \in DOMAIN d |->
            IF d[i].key = key THEN [key |-> key, value |-> value] ELSE d[i]]
    ELSE Append(d, [key |-> key, value |-> value])

\* One line of a rendered context.
ContextLine(kind, name, text) == [kind |-> kind, name |-> name, text |-> text]

\* "No established world elements yet."
NoWorldElements == <<ContextLine("no_world_elements", "", "")>>

\* "No character developments tracked yet."
NoCharacterDevelopments == <<ContextLine("no_character_developments", "", "")>>

\* The rendering that takes a single element for none.
get_world_context_late(elements) ==
    IF Len(elements) <= 1
    THEN NoWorldElements
    ELSE <<ContextLine("world_header", "", "")>>
            \o [i \in DOMAIN elements |->
                    ContextLine("element", elements[i].key, elements[i].value)]

\* "Established World Elements:" and a line "- {name}: {desc}" per item
get_world_context(elements) ==
    IF elements = <<>>
    THEN NoWorldElements
    ELSE <<ContextLine("world_header", "", "")>>
            \o [i \in DOMAIN elements |->
                    ContextLine("element", elements[i].key, elements[i].value)]

\* "- {name}:" and, below it, a line per development of the name
CharacterLines(item) ==
    <<ContextLine("character", item.key, "")>>
        \o [j \in DOMAIN item.value |->
                ContextLine("development", item.key, item.value[j])]

RECURSIVE Flatten(_)
Flatten(seqs) ==
    IF seqs = <<>> THEN <<>> ELSE Head(seqs) \o Flatten(Tail(seqs))

\* "Character Development History:" and the lines of every character
get_character_context(developments) ==
    IF developments = <<>>
    THEN NoCharacterDevelopments
    ELSE <<ContextLine("character_header", "", "")>>
            \o Flatten([i \in DOMAIN developments |->
                            CharacterLines(developments[i])])

Call(op, name, arg, result) ==
    [op |-> op, name |-> name, arg |-> arg, result |-> result]

AgentsInit ==
    /\ BookIdle
    /\ v_content = <<>>
    /\ v_number = 0
    /\ v_result = "none"
    /\ v_op = "none"
    /\ world_elements = <<>>
    /\ character_developments = <<>>
    /\ calls = <<>>

\* An update that keeps only the latest development of a character.
update_character_development_replacing ==
    /\ Len(calls) < MaxCalls
    /\ \E character_name \in CharacterNames, development \in Developments :
        /\ character_developments' =
                Put(character_developments, character_name, <<development>>)
        /\ calls' = Append(calls, Call("update_character_development",
                                       character_name, development, <<>>))
    /\ UNCHANGED <<v_content, v_number, v_result, v_op, world_elements>>
    /\ UNCHANGED book_vars

\* self.world_elements[element_name] = description
update_world_element ==
    /\ Len(calls) < MaxCalls
    /\ \E element_name \in ElementNames, description \in Descriptions :
        /\ world_elements' = Put(world_elements, element_name, description)
        /\ calls' = Append(calls, Call("update_world_element", element_name,
                                       description, <<>>))
    /\ UNCHANGED <<v_content, v_number, v_result, v_op,
                   character_developments>>
    /\ UNCHANGED book_vars

\* the list of the character is created on first use, then appended to
update_character_development ==
    /\ Len(calls) < MaxCalls
    /\ \E character_name \in CharacterNames, development \in Developments :
        LET created == IF character_name \notin Keys(character_developments)
                       THEN Put(character_developments, character_name, <<>>)
                       ELSE character_developments
        IN  /\ character_developments' =
                    Put(created, character_name,
                        Append(Get(created, character_name), development))
            /\ calls' = Append(calls, Call("update_character_development",
                                           character_name, development, <<>>))
    /\ UNCHANGED <<v_content, v_number, v_result, v_op, world_elements>>
    /\ UNCHANGED book_vars

\* a call of get_world_context() and what it returns
call_get_world_context ==
    /\ Len(calls) < MaxCalls
    /\ calls' = Append(calls, Call("get_world_context", "", "",
                                   get_world_context(world_elements)))
    /\ UNCHANGED <<v_content, v_number, v_result, v_op, world_elements,
                   character_developments>>
    /\ UNCHANGED book_vars

\* a call of get_character_context() and what it returns
call_get_character_context ==
    /\ Len(calls) < MaxCalls
    /\ calls' = Append(calls, Call("get_character_context", "", "",
                            get_character_context(character_developments)))
    /\ UNCHANGED <<v_content, v_number, v_result, v_op, world_elements,
                   character_developments>>
    /\ UNCHANGED book_vars

AgentsNext ==
    \/ update_world_element
    \/ update_character_development
    \/ call_get_world_context
    \/ call_get_character_context

AgentsSpec == AgentsInit /\ [][AgentsNext]_vars

(***************************************************************************)
(* _prepare_chapter_context taken alone                                    *)
(***************************************************************************)

\* chapters_memory holds at most MaxMemory summaries when a context is built.
MaxMemory == 3

Memories == UNION {[1..k -> {Summary(n) : n \in ChapterNumbers}] : k \in 0..MaxMemory}

\* A generator about to prepare the context of a chapter, whatever
\* chapters_memory holds.
ContextInit ==
    /\ \E n \in ChapterNumbers, prompt \in ChapterNumbers :
        /\ outline = <<[chapter_number |-> n, prompt |-> prompt]>>
        /\ chapter_number = n
    /\ sorted_outline = outline
    /\ idx = 1
    /\ pc = "prepare"
    /\ store = [f \in FileNames |-> Absent]
    /\ chapters_memory \in Memories
    /\ context = NoContext
    /\ messages = "none"
    /\ store0 = store
    /\ attempted = <<>>
    /\ completed = <<>>
    /\ halt = NoHalt
    /\ log = <<>>
    /\ groupchat = NoGroupChat
    /\ chat_message = NoMessage
    /\ UnitIdle

\* context = self._prepare_chapter_context(chapter_number, prompt)
prepare_context ==
    /\ pc = "prepare"
    /\ context' = _prepare_chapter_context(chapters_memory, chapter_number,
                                           sorted_outline[idx].prompt)
    /\ pc' = "prepared"
    /\ UNCHANGED <<outline, sorted_outline, idx, chapter_number, store,
                   chapters_memory, messages, store0, attempted, completed,
                   halt, log>>
    /\ UNCHANGED <<groupchat, chat_message>>
    /\ UNCHANGED unit_vars

ContextNext == prepare_context

ContextSpec == ContextInit /\ [][ContextNext]_vars

(***************************************************************************)
(* One session of a group chat: user_proxy.initiate_chat(manager, ...)     *)
(***************************************************************************)

\* The session is run by autogen's GroupChatManager with the parameters the
\* generator gives the GroupChat.  Every message of the session takes one of
\* the max_round rounds, the initiating message of user_proxy included; the
\* outline given as system message is no round.  In this specification
\* messages is the sequence of these messages and pc the state of the session.

\* The last agent of the list: the one whose output is the chapter.
Terminal(chat) == chat.agents[Len(chat.agents)]

PositionOf(chat, name) ==
    CHOOSE i \in DOMAIN chat.agents : chat.agents[i] = name

\* A manager that lets the model choose the next speaker in every chat.
select_speaker_auto(chat, last_speaker) == Range(chat.agents)

\* The agents that may speak next: with "round_robin" the one after the last
\* speaker in the list, cyclically; with "auto" whichever the model names.
select_speaker(chat, last_speaker) ==
    IF chat.speaker_selection_method = "round_robin"
    THEN {chat.agents[(PositionOf(chat, last_speaker) % Len(chat.agents)) + 1]}
    ELSE Range(chat.agents)

\* A message of the session: who spoke, whether it bears its tag, whether it
\* is the terminal agent's tagged (final) output, and how many messages of
\* the session the speaker had received when it spoke.
Turn(speaker, tagged, seen) ==
    [speaker |-> speaker, tagged |-> tagged, seen |-> seen]

IsFinal(chat, turn) == turn.speaker = Terminal(chat) /\ turn.tagged

SessionInit ==
    /\ outline = <<>>
    /\ sorted_outline = <<>>
    /\ idx = 0
    /\ chapter_number \in ChapterNumbers
    /\ pc = "session"
    /\ store = [f \in FileNames |-> Absent]
    /\ chapters_memory = <<>>
    /\ context = NoContext
    /\ groupchat \in {initiate_group_chat, retry_groupchat}
    /\ chat_message =
        IF groupchat.kind = "primary"
        THEN chapter_prompt(chapter_number, chapter_number,
                _prepare_chapter_context(<<>>, chapter_number, chapter_number))
        ELSE retry_prompt(chapter_number, chapter_number, NoContext)
    /\ messages = <<Turn("user_proxy", TRUE, 0)>>
    /\ store0 = store
    /\ attempted = <<>>
    /\ completed = <<>>
    /\ halt = NoHalt
    /\ log = <<>>
    /\ UnitIdle

\* The next speaker replies and its message is added; the session ends when
\* the message takes the last round.
generate_reply ==
    /\ pc = "session"
    /\ Len(messages) < groupchat.max_round
    /\ \E speaker \in select_speaker(groupchat, messages[Len(messages)].speaker),
          tagged \in BOOLEAN :
        messages' = Append(messages, Turn(speaker, tagged, Len(messages)))
    /\ pc' = IF Len(messages) + 1 = groupchat.max_round
             THEN "session_ended" ELSE "session"
    /\ UNCHANGED <<outline, sorted_outline, idx, chapter_number, store,
                   chapters_memory, context, store0, attempted, completed,
                   halt, log, groupchat, chat_message>>
    /\ UNCHANGED unit_vars

\* The call of the next speaker raises (an error of the API, a timeout), and
\* initiate_chat raises with it.
generation_failure ==
    /\ pc = "session"
    /\ Len(messages) < groupchat.max_round
    /\ pc' = "session_failed"
    /\ UNCHANGED <<outline, sorted_outline, idx, chapter_number, store,
                   chapters_memory, context, messages, store0, attempted,
                   completed, halt, log, groupchat, chat_message>>
    /\ UNCHANGED unit_vars

SessionNext ==
    \/ generate_reply
    \/ generation_failure

SessionSpec == SessionInit /\ [][SessionNext]_vars

(***************************************************************************)
(* Properties                                                              *)
(***************************************************************************)

\* The artifact of chapter n exists in st and passes the validator.
ValidArtifact(st, n) ==
    /\ exists(st, chapter_file(n))
    /\ _verify_chapter_content(st[chapter_file(n)], n)

\* The chapter numbers of the outline.
OutlineNumbers == {outline[i].chapter_number : i \in DOMAIN outline}

\* The i-th smallest chapter number of the outline.
Ranked(i) ==
    CHOOSE n \in OutlineNumbers :
        Cardinality({k \in OutlineNumbers : k < n}) = i - 1

\* The chapter the log is about.
Generated == IF log = <<>> THEN 0 ELSE log[1].n

\* C1: whatever the order of the outline given, chapters are attempted in
\* strictly ascending chapter_number order: if a is attempted before b, a < b.
C1_AscendingAttempts ==
    \A i, j \in DOMAIN attempted : i < j => attempted[i] < attempted[j]

\* Two chapters were attempted from an outline given in descending order.
C1_Witness ==
    /\ Len(attempted) = 2
    /\ Len(outline) = 2
    /\ outline[1].chapter_number > outline[2].chapter_number

\* C2: a chapter n > 1 is attempted, its context built and its artifact
\* written only if the artifact of n-1 exists and is valid; when it is absent
\* or invalid the run halts at n, and neither n nor a later chapter is
\* attempted.
C2_PrerequisiteGate ==
    /\ \A i \in DOMAIN attempted :
        attempted[i] > 1 => ValidArtifact(store, attempted[i] - 1)
    /\ \A n \in ChapterNumbers :
        store[chapter_file(n)] # store0[chapter_file(n)] => n \in Range(attempted)
    /\ context # NoContext => context.requirements \in Range(attempted)
    /\ halt.reason \in {"previous chapter not found", "previous chapter invalid"} =>
        /\ pc = "done"
        /\ halt.at > 1
        /\ ~ValidArtifact(store, halt.at - 1)
        /\ \A k \in Range(attempted) : k < halt.at
        /\ store[chapter_file(halt.at)] = store0[chapter_file(halt.at)]

\* Chapter 1 was completed, and the run halted at chapter 3 on the invalid
\* artifact of chapter 2.
C2_Witness ==
    /\ halt = Halt(3, "previous chapter invalid")
    /\ completed = <<1>>
    /\ exists(store, chapter_file(2))

\* C3: when the primary pipeline fails with a generation failure or an
\* incomplete session, the fallback pipeline is invoked exactly once for that
\* chapter; no chapter is attempted twice, the fallback is invoked at most
\* once per attempt, and a failed fallback is not retried.
C3_FallbackOnce ==
    /\ \A i, j \in DOMAIN attempted : i # j => attempted[i] # attempted[j]
    /\ \A n \in ChapterNumbers :
        /\ Count("fallback", n) <= 1
        /\ Count("fallback_session", n) <= 1
        /\ ( /\ \/ LoggedWith("primary_failed", n, "generation")
                \/ LoggedWith("primary_failed", n, "incomplete")
             /\ pc # "failure" )
           => Count("fallback", n) = 1
        /\ Logged("fallback_failed", n) =>
            /\ Count("fallback", n) = 1
            /\ pc \in {"verify_current", "loop", "done"}

\* A call of the primary session raised, the fallback ran once and failed,
\* and the run is over.
C3_Witness ==
    /\ pc = "done"
    /\ LoggedWith("primary_failed", Generated, "generation")
    /\ Count("fallback", Generated) = 1
    /\ Logged("fallback_failed", Generated)

\* C4: if both the primary and the fallback pipeline of chapter n fail, the
\* run halts at n: n is not reported complete.
C4_BothFailHalts ==
    \A n \in ChapterNumbers :
        (Logged("primary_failed", n) /\ Logged("fallback_failed", n))
            => n \notin Range(completed)

C7_NoChapterSkipped ==
    /\ Len(attempted) <= Len(outline)
    /\ \A i \in DOMAIN attempted :
        /\ attempted[i] = Ranked(i)
        /\ i > 1 => ValidArtifact(store, attempted[i - 1])

\* The second chapter of an outline with a gap in its numbering was attempted.
C7_Witness ==
    /\ Len(attempted) = 2
    /\ attempted[2] > attempted[1] + 1

\* C8: between two chapters, and at the end of the run, chapters_memory holds
\* as many summaries as chapters were reported complete.
C8_MemoryCountsCompleted ==
    pc \in {"loop", "done"} => Len(chapters_memory) = Len(completed)

\* C9: every chapter reported complete has an artifact in the store that
\* passes the validator; so when chapters 1..N are all reported complete, each
\* artifact 1..N exists and is valid.
C9_CompleteImpliesValid ==
    \A i \in DOMAIN completed : ValidArtifact(store, completed[i])

\* The run is over with both chapters of the outline 1, 2 reported complete.
C9_Witness ==
    /\ pc = "done"
    /\ OutlineNumbers = {1, 2}
    /\ completed = <<1, 2>>

C11_ArtifactImmutable ==
    \A n \in ChapterNumbers :
        ( /\ LoggedWith("write", n, "primary")
          /\ \/ pc = "notify" /\ chapter_number = n
             \/ Logged("notice", n)
             \/ LoggedWith("primary_failed", n, "notice") )
        => /\ ~Logged("fallback", n)
           /\ Count("write", n) = 1

\* The lines of a text that count as prose: neither blank nor bookkeeping.
Informative(content) ==
    {i \in DOMAIN content : content[i].kind \in {"text", "hdr"}}

\* Some line of the text holds "Chapter <n>".
ContainsMarker(content, n) ==
    \E i \in DOMAIN content :
        /\ content[i].kind \in {"hdr", "memhdr"}
        /\ IsDecimalPrefix(n, content[i].num)

Validated == v_result \in {"true", "false"}

\* C12 as stated: the validator accepts exactly the non-empty texts that hold
\* the marker of the chapter and at least 2 lines that are neither blank nor
\* bookkeeping.
C12_TwoLinesSuffice ==
    Validated =>
        ( v_result = "true"
            <=> /\ v_content # EmptyContent
                /\ ContainsMarker(v_content, v_number)
                /\ Cardinality(Informative(v_content)) >= 2 )

\* C12: the validator accepts exactly the non-empty texts that hold the marker
\* of the chapter and at least MinContentLines lines that are neither blank
\* nor bookkeeping, the header line counted among them.
C12_ThreeLinesRequired ==
    Validated =>
        ( v_result = "true"
            <=> /\ v_content # EmptyContent
                /\ ContainsMarker(v_content, v_number)
                /\ Cardinality(Informative(v_content)) >= MinContentLines )

\* A text accepted with exactly MinContentLines lines of prose among blank and
\* bookkeeping lines.
C12_Witness ==
    /\ v_result = "true"
    /\ Cardinality(Informative(v_content)) = MinContentLines
    /\ \E i \in DOMAIN v_content : HasMemoryUpdate(v_content[i])
    /\ \E i \in DOMAIN v_content : IsBlank(v_content[i])

\* C13: the validator rejects the empty text and every text that does not
\* hold the marker "Chapter <n>" of the chapter asked for.
C13_RejectsEmptyOrUnmarked ==
    ( /\ Validated
      /\ \/ v_content = EmptyContent
         \/ ~ContainsMarker(v_content, v_number) )
    => v_result = "false"

\* A text of enough prose rejected because its header names another chapter.
C13_Witness ==
    /\ v_result = "false"
    /\ Cardinality(Informative(v_content)) >= MinContentLines
    /\ \E i \in DOMAIN v_content : v_content[i].kind = "hdr"
    /\ ~ContainsMarker(v_content, v_number)

\* C14: a text whose first line is the header "Chapter <n>" and that holds
\* at least two further lines of prose is accepted, whether or not it ends
\* with a newline and whatever blank lines lie between.
C14_HeaderAndTwoLines ==
    ( /\ Validated
      /\ v_content[1].kind = "hdr"
      /\ IsDecimalPrefix(v_number, v_content[1].num)
      /\ Cardinality(Informative(v_content) \ {1}) >= 2 )
    => v_result = "true"

\* "Chapter n", a line, a blank line, a line, and the trailing newline.
C14_Witness ==
    /\ v_result = "true"
    /\ v_content = <<HdrLine(v_number), TextLine, EmptyLine, TextLine,
                     EmptyLine>>

\* C15: adding or removing a blank line or a bookkeeping line never changes
\* what the validator answers, provided the marker of the chapter stands in
\* the lines left alone.
C15_BookkeepingLinesIgnored ==
    [][ ( /\ v_content' # v_content
          /\ ContainsMarker(v_content, v_number)
          /\ ContainsMarker(v_content', v_number) )
        => ( _verify_chapter_content(v_content', v_number)
                <=> _verify_chapter_content(v_content, v_number) ) ]_vars

\* An accepted text that has just gained a bookkeeping line.
C15_Witness ==
    /\ v_op = "add"
    /\ Len(v_content) = MaxLines
    /\ Cardinality(Informative(v_content)) = MinContentLines
    /\ \E i \in DOMAIN v_content : v_content[i] = MemLine
    /\ _verify_chapter_content(v_content, v_number)

WritesBefore(i, name) ==
    {j \in 1..(i - 1) :
        /\ calls[j].op = "update_world_element"
        /\ calls[j].name = name}

Latest(S) == CHOOSE j \in S : \A k \in S : k <= j

\* The lines of a rendering that show the element of this name.
ElementLines(rendering, name) ==
    {k \in DOMAIN rendering :
        /\ rendering[k].kind = "element"
        /\ rendering[k].name = name}

\* C17: after any sequence of update_world_element calls every name written
\* has exactly one stored entry, holding the description of the latest call
\* for that name, and every get_world_context shows for each name written
\* before it one line, with that latest description and no overwritten one.
C17_LastWriteWins ==
    \A name \in ElementNames :
        /\ LET W == WritesBefore(Len(calls) + 1, name) IN
            IF W = {}
            THEN name \notin Keys(world_elements)
            ELSE /\ Cardinality({k \in DOMAIN world_elements :
                                    world_elements[k].key = name}) = 1
                 /\ Get(world_elements, name) = calls[Latest(W)].arg
        /\ \A i \in DOMAIN calls :
            calls[i].op = "get_world_context" =>
                LET W == WritesBefore(i, name)
                    shown == ElementLines(calls[i].result, name)
                IN  IF W = {}
                    THEN shown = {}
                    ELSE /\ Cardinality(shown) = 1
                         /\ \A k \in shown :
                                calls[i].result[k].text = calls[Latest(W)].arg

\* "Forest" set to "A", then to "B", then rendered.
C17_Witness ==
    /\ Len(calls) >= 3
    /\ calls[1] = Call("update_world_element", "Forest", "A", <<>>)
    /\ calls[2] = Call("update_world_element", "Forest", "B", <<>>)
    /\ calls[3].op = "get_world_context"
    /\ calls[3].result = <<ContextLine("world_header", "", ""),
                           ContextLine("element", "Forest", "B")>>

\* The developments passed for this character, in the order of the calls.
RECURSIVE Passed(_, _)
Passed(i, name) ==
    IF i = 0
    THEN <<>>
    ELSE IF /\ calls[i].op = "update_character_development"
            /\ calls[i].name = name
         THEN Append(Passed(i - 1, name), calls[i].arg)
         ELSE Passed(i - 1, name)

\* C18: after any sequence of update_character_development calls the list
\* stored for each character is exactly the developments passed for that
\* character, in call order and with duplicates; a character never passed has
\* no entry, and calls for other characters leave the list alone.
C18_AppendOnly ==
    \A name \in CharacterNames :
        LET passed == Passed(Len(calls), name) IN
            IF passed = <<>>
            THEN name \notin Keys(character_developments)
            ELSE /\ Cardinality({k \in DOMAIN character_developments :
                                    character_developments[k].key = name}) = 1
                 /\ Get(character_developments, name) = passed

\* "Dane" given "x" and "y" around a call for "Mira".
C18_Witness ==
    /\ Len(calls) = 3
    /\ calls[2].name = "Mira"
    /\ Keys(character_developments) = {"Dane", "Mira"}
    /\ Get(character_developments, "Dane") = <<"x", "y">>
    /\ Get(character_developments, "Mira") = <<"x">>

\* C19: get_world_context returns its sentinel exactly when no world element
\* was set before the call, and get_character_context returns its sentinel
\* exactly when no development was recorded before the call; after an update
\* the sentinel is never returned again.
C19_SentinelIffEmpty ==
    \A i \in DOMAIN calls :
        /\ calls[i].op = "get_world_context" =>
            ( calls[i].result = NoWorldElements
                <=> \A j \in 1..(i - 1) : calls[j].op # "update_world_element" )
        /\ calls[i].op = "get_character_context" =>
            ( calls[i].result = NoCharacterDevelopments
                <=> \A j \in 1..(i - 1) :
                        calls[j].op # "update_character_development" )

\* Both sentinels returned, then an update, then a rendering with an entry.
C19_Witness ==
    /\ Len(calls) = 4
    /\ calls[1].op = "get_world_context"
    /\ calls[1].result = NoWorldElements
    /\ calls[2].op = "get_character_context"
    /\ calls[2].result = NoCharacterDevelopments
    /\ calls[3].op = "update_world_element"
    /\ calls[4].op = "get_world_context"
    /\ calls[4].result # NoWorldElements

\* C20: the context of chapter 1 holds only the "Initial Chapter" marker and
\* the requirements, whatever chapters_memory holds; the context of a chapter
\* n > 1 lists exactly the first n-1 summaries of chapters_memory, labelled
\* Chapter 1..n-1 in order, then the requirements, and no later summary
\* (read for a chapters_memory that holds these n-1 summaries).
C20_PreviousSummariesOnly ==
    pc = "prepared" =>
        /\ context.requirements = sorted_outline[idx].prompt
        /\ IF chapter_number = 1
           THEN /\ context.initial
                /\ context.summaries = <<>>
           ELSE /\ ~context.initial
                /\ Len(chapters_memory) >= chapter_number - 1 =>
                    /\ Len(context.summaries) = chapter_number - 1
                    /\ \A i \in 1..(chapter_number - 1) :
                            context.summaries[i] =
                                [label |-> i, summary |-> chapters_memory[i]]

\* C21: in a run over an outline numbered 1..N, when the context of chapter
\* n+1 has been built, chapter n has been reported complete and the context
\* lists a summary of every chapter 1..n.
C21_CompletionBeforeContext ==
    OutlineNumbers = 1..Len(outline) =>
        \A n \in ChapterNumbers :
            (n > 1 /\ Logged("context", n)) =>
                /\ (n - 1) \in Range(completed)
                /\ \A k \in 1..(n - 1) :
                    \E i \in DOMAIN context.summaries :
                        context.summaries[i].summary = Summary(k)

\* generate_chapter has returned and the next chapter is not yet attempted.
Returned == pc \in {"verify_current", "loop", "done"}

C23_NoticeNeedsArtifact ==
    \A n \in ChapterNumbers :
        Logged("notice", n) =>
            /\ exists(store, chapter_file(n))
            /\ Count("notice", n) = 1
            /\ Cardinality({i \in DOMAIN attempted : attempted[i] = n}) = 1

\* The notice of a chapter whose artifact was created in this run.
C23_Witness ==
    /\ pc = "verify_current"
    /\ Logged("notice", chapter_number)
    /\ ~exists(store0, chapter_file(chapter_number))
    /\ exists(store, chapter_file(chapter_number))

C25_FailedPrimaryDiscarded ==
    \A n \in ChapterNumbers :
        ( \/ LoggedWith("primary_session", n, "error")
          \/ LoggedWith("primary_session", n, "no_final") )
        => /\ ~LoggedWith("write", n, "primary")
           /\ ~Logged("notice", n)

\* A primary session without final output, discarded; the fallback pipeline
\* wrote the artifact.
C25_Witness ==
    /\ Returned
    /\ LoggedWith("primary_session", chapter_number, "no_final")
    /\ LoggedWith("primary_failed", chapter_number, "incomplete")
    /\ LoggedWith("write", chapter_number, "fallback")

\* C26: a fallback session of chapter n that ended without a final output
\* counts as failed, and nothing is written from its messages.
C26_IncompleteFallbackDiscarded ==
    \A n \in ChapterNumbers :
        LoggedWith("fallback_session", n, "no_final")
            => ~LoggedWith("write", n, "fallback")

\* C27: for every outline of unique positive chapter numbers, contiguous or
\* not, the fallback pipeline runs for a chapter only after the primary
\* session of that chapter was started.
C27_PrimaryBeforeFallback ==
    \A n \in ChapterNumbers :
        Logged("fallback", n) => Logged("primary_session", n)

\* What can go wrong in the primary pipeline of a chapter of an outline
\* numbered 1..N: a generation call fails, in the session or in the send of
\* the notice; the session ends without final output; the results are not
\* persisted.
PrimaryFailures ==
    {"generation", "incomplete", "process", "file not created", "notice"}

\* The primary pipeline of chapter n ran without failure and left a valid text.
SuccessPath(n) ==
    /\ LoggedWith("primary_session", n, "final")
    /\ LoggedWith("write", n, "primary")
    /\ Logged("notice", n)
    /\ _verify_chapter_content(store[chapter_file(n)], n)

C29_SameSchedulingRule ==
    groupchat.kind = "retry" =>
        /\ groupchat.speaker_selection_method = "round_robin"
        /\ initiate_group_chat.speaker_selection_method = "round_robin"
        /\ groupchat.agents = <<"user_proxy", "story_planner", "writer">>
        /\ groupchat.max_round = RetryMaxRound
        /\ initiate_group_chat.max_round = PrimaryMaxRound

\* C30 as stated: the fallback session of a chapter is started with the
\* context that was prepared for the primary session of the chapter.
C30_FallbackSameContext ==
    groupchat.kind = "retry" => chat_message.context = context

\* C30: the fallback session of a chapter is started with the chapter number
\* and the requirements of the chapter, the prompt the primary session was
\* given, and with nothing of the prepared context: no summary of an earlier
\* chapter.
C30_FallbackRequirementsOnly ==
    groupchat.kind = "retry" =>
        /\ chat_message.kind = "retry_prompt"
        /\ chat_message.chapter = Generated
        /\ \E i \in DOMAIN outline :
            /\ outline[i].chapter_number = Generated
            /\ chat_message.requirements = outline[i].prompt
        /\ chat_message.requirements = context.requirements
        /\ chat_message.context = NoContext
        /\ chat_message.context.summaries = <<>>

\* The fallback session of a later chapter, started after a primary session
\* whose context listed a summary.
C30_Witness ==
    /\ pc = "retry_chat"
    /\ chapter_number > 1
    /\ Logged("primary_session", chapter_number)
    /\ context.summaries # <<>>
    /\ chat_message.kind = "retry_prompt"

\* C31: in the primary session the speakers come one at a time in list
\* order, the memory keeper, the writer, the editor and the final writer after
\* the initiating user_proxy, each once, and each has received exactly the
\* messages before its own; a session that no failed call cut short ends with
\* the message of the final writer, within the PrimaryMaxRound rounds.
C31_ListOrderWithinCap ==
    groupchat.kind = "primary" =>
        /\ Len(messages) <= PrimaryMaxRound
        /\ \A i \in DOMAIN messages :
            /\ messages[i].speaker =
                <<"user_proxy", "memory_keeper", "writer", "editor",
                  "writer_final">>[i]
            /\ messages[i].seen = i - 1
        /\ \A i, j \in DOMAIN messages :
            messages[i].speaker = messages[j].speaker => i = j
        /\ pc = "session_ended" =>
            messages[Len(messages)].speaker = "writer_final"

\* A primary session that ended on the tagged output of the final writer.
C31_Witness ==
    /\ groupchat.kind = "primary"
    /\ pc = "session_ended"
    /\ Len(messages) = PrimaryMaxRound
    /\ IsFinal(groupchat, messages[Len(messages)])

\* C32 as stated: a session never has more messages than its max_round, it
\* is over once it has that many, and no message follows the final output of
\* the terminal participant.
C32_EndsOnCapOrFinal ==
    /\ Len(messages) <= groupchat.max_round
    /\ pc = "session" => Len(messages) < groupchat.max_round
    /\ \A i \in DOMAIN messages :
        IsFinal(groupchat, messages[i]) => i = Len(messages)

\* The halt messages of generate_book.
HaltReasons ==
    {"previous chapter not found", "previous chapter invalid",
     "chapter not generated", "chapter content invalid"}

PcRank ==
    CASE pc = "start" -> 0
      [] pc = "loop" -> 0
      [] pc = "generate" -> 1
      [] pc = "chat" -> 2
      [] pc = "verify" -> 3
      [] pc = "process" -> 4
      [] pc = "exists" -> 5
      [] pc = "notify" -> 6
      [] pc = "failure" -> 7
      [] pc = "retry_chat" -> 8
      [] pc = "retry_process" -> 9
      [] pc = "verify_current" -> 10
      [] pc = "done" -> 11
      [] OTHER -> 0

\* How far the run is: the turns of the loop begun, then the place in the turn.
Progress == idx * 12 + PcRank

\* The chapters are attempted one each in the order of the sorted outline, an
\* attempt has at most one primary and one fallback session, and a run that
\* is over has checked every chapter it attempted.
AttemptsAndSessionsOnce ==
    /\ Len(attempted) <= Len(outline)
    /\ \A i \in DOMAIN attempted :
        attempted[i] = sorted_outline[i].chapter_number
    /\ Count("primary_session", Generated) <= 1
    /\ Count("fallback_session", Generated) <= 1
    /\ Progress <= (Len(outline) + 1) * 12 + 11
    /\ pc = "done" =>
        \A i \in DOMAIN attempted :
            \/ attempted[i] \in Range(completed)
            \/ /\ halt.at = attempted[i]
               /\ halt.reason \in {"chapter not generated",
                                   "chapter content invalid"}

\* C34: every step of generate_book takes the run further, and no further
\* than the outline allows, so the run ends; each chapter of the outline is
\* attempted at most once, with at most one primary and one fallback session,
\* and an exception of either pipeline leaves the run in generate_book: the
\* chapter is checked, and is reported complete or halted at.
C34_TerminatesAttemptingOnce ==
    /\ []AttemptsAndSessionsOnce
    /\ [][Progress' > Progress]_vars

\* The primary and the fallback session of a chapter both raised, and the run
\* is over, halted at that chapter.
C34_Witness ==
    /\ pc = "done"
    /\ LoggedWith("primary_session", Generated, "error")
    /\ LoggedWith("fallback_session", Generated, "error")
    /\ halt = Halt(Generated, "chapter not generated")

\* Chapter numbers whose file names are compared.
MaxAddress == 110

\* C35: the file name of a chapter has at least two digits (chapter_03), and
\* no other chapter has the name of the chapter to generate; the check after the
\* generation of chapter n and the check before chapter n+1 read the same
\* file: a run halted at n has chapter_file(n) absent or invalid, a run
\* halted before n+1 has chapter_file(n) absent or invalid, and a chapter
\* reported complete is never the previous chapter a halt is about.
C35_OneAddressPerChapter ==
    /\ chapter_file(3) = <<0, 3>>
    /\ pc = "generate" =>
        /\ Len(chapter_file(chapter_number)) >= 2
        /\ \A m \in 1..MaxAddress :
            m # chapter_number =>
                chapter_file(m) # chapter_file(chapter_number)
    /\ halt.reason = "chapter not generated" =>
        ~exists(store, chapter_file(halt.at))
    /\ halt.reason = "chapter content invalid" =>
        /\ exists(store, chapter_file(halt.at))
        /\ ~_verify_chapter_content(store[chapter_file(halt.at)], halt.at)
    /\ halt.reason = "previous chapter not found" =>
        ~exists(store, chapter_file(halt.at - 1))
    /\ halt.reason = "previous chapter invalid" =>
        /\ exists(store, chapter_file(halt.at - 1))
        /\ ~_verify_chapter_content(store[chapter_file(halt.at - 1)],
                                    halt.at - 1)
    /\ \A n \in Range(completed) :
        /\ ValidArtifact(store, n)
        /\ halt.reason \in {"previous chapter not found",
                            "previous chapter invalid"} => halt.at # n + 1

\* Chapter 1 was generated and reported complete, and the run halted at
\* chapter 3 of the outline, whose previous chapter 2 has no file.
C35_Witness ==
    /\ pc = "done"
    /\ completed = <<1>>
    /\ Logged("write", 1) \/ store0[chapter_file(1)] # Absent
    /\ halt = Halt(3, "previous chapter not found")

====
